---- MODULE Spec2Model ----
(***************************************************************************)
(* vblock: the per-queue dispatch engine (src/src/main.rs), and further    *)
(* down the layout prober (src/src/layout.rs, src/src/kernel.rs), the      *)
(* Master Allocator of the design and the offset arithmetic of             *)
(* submit_io_cmd, each under a specification of its own.                   *)
(*                                                                         *)
(* One task per tag runs the loop of Backing::queue_handler: it issues a   *)
(* fetch / commit-and-fetch command to the ublk host framework, awaits the *)
(* command's result, handles the delivered request in handle_io_cmd (up to *)
(* four submissions on the queue's io_uring, each awaited) and loops.      *)
(* The tasks of a queue run on one single-threaded cooperative executor,   *)
(* so the code between two awaits is one atomic step.                      *)
(***************************************************************************)
EXTENDS Integers, Sequences, FiniteSets, Bags, TLC

(* ------------------------------ bounds -------------------------------- *)
\* Queue depth: the number of tags, one task each (1024 in main.rs:96).
NTags == 2
\* Entries of the ring's submission queue (the ring is built by libublk).
SqEntries == 1
\* Requests the host framework delivers to the queue, all tags together,
\* before it only aborts.
MaxReqs == 2

(* ------------------------- program constants -------------------------- *)
EINVAL == -22
EAGAIN == -11
\* A hard I/O error, as a completion result.
EIO == -5
\* libublk::sys values named in main.rs.
UBLK_IO_RES_ABORT == -19
UBLK_IO_FETCH_REQ == 32
UBLK_IO_COMMIT_AND_FETCH_REQ == 33
UBLK_IO_OP_READ == 0
UBLK_IO_OP_WRITE == 1
UBLK_IO_OP_FLUSH == 2
\* dev_sectors = dev.tgt.dev_size >> 9, with dev_size = 10 << 30.
DevSectors == 20971520
\* The extent's base, 1 << 30 bytes, in units of 512 bytes.
BaseSectors == 2097152
\* 2^32 bytes, the width of the u32 byte length, in units of 512 bytes.
LenWrap == 8388608
\* The index of the registered backing file, types::Fixed(1).
FixedFd == 1

Tags == 0 .. (NTags - 1)

\* io_descriptor.op_flags & 0xff
OpOf(d) == d.op_flags % 256

\* results a ring completion can carry: the transient code, a hard error
\* and a byte count.
CompletionSet == {EAGAIN, EIO, 4096}

\* The request descriptors the host framework delivers: a READ of the first
\* sector, a WRITE (with a flag bit set above the opcode byte) of the first
\* sector past the device, a FLUSH, and an opcode main.rs does not name (3,
\* a discard).
Desc(flags, sector, nr) == [op_flags |-> flags, start_sector |-> sector, nr_sectors |-> nr]
ReadDesc == Desc(UBLK_IO_OP_READ, 0, 8)
Descs == {ReadDesc,
          Desc(256 + UBLK_IO_OP_WRITE, DevSectors, 8),
          Desc(UBLK_IO_OP_FLUSH, 0, 8),
          Desc(3, 0, 8)}
ZeroDesc == [op_flags |-> 0, start_sector |-> 0, nr_sectors |-> 0]

(* ------------------------------- state -------------------------------- *)
VARIABLES
    pc,         \* per tag: "start", "await_cmd", "await_io", "stopped"
    cmd_op,     \* per tag: the local cmd_op of the task's loop
    res,        \* per tag: the local res of the task's loop
    user_data,  \* per tag: the local user_data of handle_io_cmd
    attempt,    \* per tag: the iteration of handle_io_cmd's for loop
    iod,        \* per tag: the request descriptor of queue.get_iod(tag)
    hostcmd,    \* per tag: the command slot of the host framework
    sq,         \* the ring's submission queue: the bag of entries pushed, not yet entered
    inflight,   \* the bag of ring operations the kernel is executing
    cq,         \* the ring's completion queue: the bag of completions not yet reaped
    panicked,   \* the queue thread unwound from a panic
    nfetch,     \* ghost, per tag: requests delivered by the host framework
    nret,       \* ghost, per tag: returns of handle_io_cmd
    ncmds,      \* ghost, per tag: commands issued to the host framework
    subs,       \* ghost, per tag: number of ring entries pushed for the current request
    comps,      \* ghost, per tag: completions received for the current request
    toks,       \* ghost, per tag: tokens of the current request's submissions
    gotAbort,   \* ghost, per tag: a command of the tag returned the abort sentinel
    ents,       \* ghost, per tag: the ring entries pushed for the current request
    probe,      \* one call of Layout::new (src/src/layout.rs)
    master,     \* the Master Allocator: master block and vblock directory
    calc        \* one evaluation of the offset arithmetic of submit_io_cmd

\* The state of the dispatch engine, and the state of the other components.
qvars == <<pc, cmd_op, res, user_data, attempt, iod, hostcmd, sq, inflight, cq,
           panicked, nfetch, nret, ncmds, subs, comps, toks, gotAbort, ents>>
aux == <<probe, master, calc>>
vars == <<qvars, aux>>

(* --------------------------- pure functions --------------------------- *)
IsSupported(op) == op \in {UBLK_IO_OP_FLUSH, UBLK_IO_OP_READ, UBLK_IO_OP_WRITE}

prep_accept_all(d) == 0
prep_io_cmd_submission(d) == IF IsSupported(OpOf(d)) THEN 0 ELSE EINVAL

\* UblkIOCtx::build_user_data_async(tag, op, 0): the token encodes
\* (tag, opcode, retry-marker).
build_user_data_op_only(tag, op, op_id) == <<op, op, op_id>>
build_user_data_no_tag(tag, op, op_id) == <<0, op, op_id>>
build_user_data_async(tag, op, op_id) == <<tag, op, op_id>>
\* The executor wakes the task of the tag the completion's token decodes to.
user_data_tag_from_op(ud) == ud[2]
user_data_to_tag(ud) == ud[1]

\* queue.get_io_buf_addr(tag): one buffer per tag.
BufAddr(tag) == 524288 * (tag + 1)

\* off = (start_sector << 9) as u64 + (1 << 30); bytes = (nr_sectors << 9) as u32.
\* Both are kept in units of 512 bytes (byte value = 512 * unit value): the
\* shift by 9 is the unit, the u32 length wraps at 2^32 bytes = LenWrap units,
\* and the u64 offset cannot wrap for a start sector below 2^31.
OffOf(d) == d.start_sector + BaseSectors
BytesOf(d) == d.nr_sectors % LenWrap

\* The entry submit_io_cmd pushes for one attempt; none for an opcode it
\* does not know. "by" is a ghost field: the task that pushed the entry.
SqeOfAdvancing(opc, tag, d, data) ==
    [opcode |-> opc, fd |-> FixedFd, off |-> OffOf(d) + attempt[tag] * BytesOf(d),
     len |-> BytesOf(d),
     buf |-> IF opc = "SyncFileRange" THEN 0 ELSE BufAddr(tag),
     user_data |-> data, by |-> tag]
SqeOf(opc, tag, d, data) ==
    [opcode |-> opc, fd |-> FixedFd, off |-> OffOf(d), len |-> BytesOf(d),
     buf |-> IF opc = "SyncFileRange" THEN 0 ELSE BufAddr(tag),
     user_data |-> data, by |-> tag]

submit_io_cmd(tag, d, data) ==
    LET op == OpOf(d)
    IN  IF op = UBLK_IO_OP_FLUSH THEN <<SqeOf("SyncFileRange", tag, d, data)>>
        ELSE IF op = UBLK_IO_OP_READ THEN <<SqeOf("Read", tag, d, data)>>
        ELSE IF op = UBLK_IO_OP_WRITE THEN <<SqeOf("Write", tag, d, data)>>
        ELSE <<>>

\* for _ in 0..4
Attempts5 == 4 + 1
Attempts3 == 4 - 1
Attempts == 4

\* if res != EAGAIN { return res; }
RetryAnyError(r) == r < 0
IsTransient(r) == r = EAGAIN

\* if cmd_res == UBLK_IO_RES_ABORT { break; }
NeverAbort(cmd_res) == FALSE
IsAbort(cmd_res) == cmd_res = UBLK_IO_RES_ABORT

\* cmd_op = UBLK_IO_COMMIT_AND_FETCH_REQ
KeepFetchReq == UBLK_IO_FETCH_REQ
NextCmdOp == UBLK_IO_COMMIT_AND_FETCH_REQ

RECURSIVE SumTo(_, _)
SumTo(f, n) == IF n < 0 THEN 0 ELSE f[n] + SumTo(f, n - 1)
\* The requests delivered so far on all tags.
Delivered == SumTo(nfetch, NTags - 1)

\* The bag of the elements of a sequence of at most two entries.
SeqToBag(es) ==
    IF Len(es) = 0 THEN EmptyBag
    ELSE IF Len(es) = 1 THEN SetToBag({es[1]})
    ELSE SetToBag({es[1]}) (+) SetToBag({es[2]})

NoCmd == [st |-> "none", cmd_op |-> 0, result |-> 0, cmd_res |-> 0]
NoToken == <<-1, -1, -1>>

\* The components the dispatch engine does not touch, at rest.
NoProbe == [st |-> "idle"]
NoMaster == [st |-> "idle"]
NoCalc == [st |-> "idle"]

QueueInit ==
    /\ pc = [t \in Tags |-> "start"]
    /\ cmd_op = [t \in Tags |-> UBLK_IO_FETCH_REQ]
    /\ res = [t \in Tags |-> 0]
    /\ user_data = [t \in Tags |-> NoToken]
    /\ attempt = [t \in Tags |-> 0]
    /\ iod = [t \in Tags |-> ZeroDesc]
    /\ hostcmd = [t \in Tags |-> NoCmd]
    /\ sq = EmptyBag
    /\ inflight = EmptyBag
    /\ cq = EmptyBag
    /\ panicked = FALSE
    /\ nfetch = [t \in Tags |-> 0]
    /\ nret = [t \in Tags |-> 0]
    /\ ncmds = [t \in Tags |-> 0]
    /\ subs = [t \in Tags |-> 0]
    /\ comps = [t \in Tags |-> <<>>]
    /\ toks = [t \in Tags |-> <<>>]
    /\ gotAbort = [t \in Tags |-> FALSE]
    /\ ents = [t \in Tags |-> <<>>]

Init ==
    /\ QueueInit
    /\ probe = NoProbe
    /\ master = NoMaster
    /\ calc = NoCalc

(* ------------------------- steps of a task ---------------------------- *)
\* queue.submit_io_cmd(tag, cmd_op, buf_addr, res), then the await: the
\* command is handed to the host framework and the task suspends.
IssueCmd(t, op, r) ==
    /\ hostcmd' = [hostcmd EXCEPT ![t] =
                      [st |-> "issued", cmd_op |-> op, result |-> r, cmd_res |-> 0]]
    /\ ncmds' = [ncmds EXCEPT ![t] = @ + 1]
    /\ pc' = [pc EXCEPT ![t] = "await_cmd"]

\* handle_io_cmd returns r: res = r, cmd_op = COMMIT_AND_FETCH, and the
\* loop's next iteration issues the command. The locals of handle_io_cmd
\* (user_data, the loop counter) go out of scope.
DoReturn(t, r) ==
    /\ res' = [res EXCEPT ![t] = r]
    /\ cmd_op' = [cmd_op EXCEPT ![t] = NextCmdOp]
    /\ nret' = [nret EXCEPT ![t] = @ + 1]
    /\ IssueCmd(t, NextCmdOp, r)
    /\ user_data' = [user_data EXCEPT ![t] = NoToken]
    /\ attempt' = [attempt EXCEPT ![t] = 0]
    /\ UNCHANGED <<sq, panicked, subs, toks, ents>>

\* One iteration of the for loop up to its await: submit_io_cmd pushes the
\* entry on the submission queue; push(..).expect(..) panics when the queue
\* has no free entry, which unwinds the queue thread.
DoSubmit(t, d, data) ==
    LET es == submit_io_cmd(t, d, data)
    IN  /\ IF BagCardinality(sq) + Len(es) > SqEntries
              THEN /\ panicked' = TRUE
                   /\ UNCHANGED <<sq, subs, toks, ents, pc>>
              ELSE /\ sq' = sq (+) SeqToBag(es)
                   /\ subs' = [subs EXCEPT ![t] = @ + Len(es)]
                   /\ toks' = [toks EXCEPT ![t] = @ \o [i \in 1 .. Len(es) |-> es[i].user_data]]
                   /\ ents' = [ents EXCEPT ![t] = @ \o es]
                   /\ pc' = [pc EXCEPT ![t] = "await_io"]
                   /\ UNCHANGED panicked
        /\ user_data' = [user_data EXCEPT ![t] = data]
        /\ attempt' = [attempt EXCEPT ![t] = @ + 1]
        /\ UNCHANGED <<res, cmd_op, nret, hostcmd, ncmds>>

\* The first poll of a spawned task: FETCH_REQ with res = 0.
TaskStart(t) ==
    /\ ~panicked
    /\ pc[t] = "start"
    /\ IssueCmd(t, cmd_op[t], res[t])
    /\ UNCHANGED <<cmd_op, res, user_data, attempt, iod, sq, inflight, cq, panicked,
                   nfetch, nret, subs, comps, toks, gotAbort, ents>>
    /\ UNCHANGED aux

\* The task resumes with the result of its command: break on abort, else
\* handle_io_cmd up to its first await or its early return. On break the
\* task ends: its locals are dropped and it has no current request.
CmdWake(t) ==
    /\ ~panicked
    /\ pc[t] = "await_cmd"
    /\ hostcmd[t].st = "done"
    /\ LET cmd_res == hostcmd[t].cmd_res
           op == OpOf(iod[t])
           data == build_user_data_async(t, op, 0)
           r == prep_io_cmd_submission(iod[t])
       IN  /\ gotAbort' = [gotAbort EXCEPT ![t] = @ \/ (cmd_res = UBLK_IO_RES_ABORT)]
           /\ IF IsAbort(cmd_res)
                 THEN /\ pc' = [pc EXCEPT ![t] = "stopped"]
                      /\ hostcmd' = [hostcmd EXCEPT ![t] = NoCmd]
                      /\ cmd_op' = [cmd_op EXCEPT ![t] = 0]
                      /\ res' = [res EXCEPT ![t] = 0]
                      /\ subs' = [subs EXCEPT ![t] = 0]
                      /\ toks' = [toks EXCEPT ![t] = <<>>]
                      /\ ents' = [ents EXCEPT ![t] = <<>>]
                      /\ comps' = [comps EXCEPT ![t] = <<>>]
                      /\ UNCHANGED <<user_data, attempt, sq, panicked, nret, ncmds>>
                 ELSE /\ IF r < 0
                            THEN DoReturn(t, r)
                            ELSE DoSubmit(t, iod[t], data)
                      /\ UNCHANGED comps
    /\ UNCHANGED <<iod, inflight, cq, nfetch>>
    /\ UNCHANGED aux

\* The executor takes a completion off the completion queue and wakes the
\* task of the token's tag; the task's UringOpFuture resolves when the
\* token is the one it awaits, and the loop goes on. Completions arrive in
\* any order, so the queue is a bag and any of its completions is next.
IoWake(c) ==
    /\ ~panicked
    /\ BagIn(c, cq)
    /\ LET t == user_data_to_tag(c.user_data)
       IN  /\ cq' = cq (-) SetToBag({c})
           /\ IF t \in Tags /\ pc[t] = "await_io" /\ user_data[t] = c.user_data
                 THEN /\ comps' = [comps EXCEPT ![t] = Append(@, c.res)]
                      /\ IF ~IsTransient(c.res)
                            THEN DoReturn(t, c.res)
                            ELSE IF attempt[t] < Attempts
                                    THEN DoSubmit(t, iod[t], user_data[t])
                                    ELSE DoReturn(t, EAGAIN)
                 ELSE UNCHANGED <<pc, cmd_op, res, user_data, attempt, hostcmd, sq,
                                  panicked, nret, ncmds, subs, comps, toks, ents>>
    /\ UNCHANGED <<iod, inflight, nfetch, gotAbort>>
    /\ UNCHANGED aux

(* ----------------------- the host framework --------------------------- *)
\* The command completes with a new request descriptor for the tag (result
\* 0, not the abort sentinel); the ghosts of the current request start anew.
HostFetch(t, d) ==
    /\ ~panicked
    /\ hostcmd[t].st = "issued"
    /\ Delivered < MaxReqs
    /\ hostcmd' = [hostcmd EXCEPT ![t].st = "done", ![t].cmd_res = 0]
    /\ iod' = [iod EXCEPT ![t] = d]
    /\ nfetch' = [nfetch EXCEPT ![t] = @ + 1]
    /\ subs' = [subs EXCEPT ![t] = 0]
    /\ comps' = [comps EXCEPT ![t] = <<>>]
    /\ toks' = [toks EXCEPT ![t] = <<>>]
    /\ ents' = [ents EXCEPT ![t] = <<>>]
    /\ UNCHANGED <<pc, cmd_op, res, user_data, attempt, sq, inflight, cq, panicked,
                   nret, ncmds, gotAbort>>
    /\ UNCHANGED aux

\* The command completes with the abort sentinel.
HostAbort(t) ==
    /\ ~panicked
    /\ hostcmd[t].st = "issued"
    /\ hostcmd' = [hostcmd EXCEPT ![t].st = "done", ![t].cmd_res = UBLK_IO_RES_ABORT]
    /\ UNCHANGED <<pc, cmd_op, res, user_data, attempt, iod, sq, inflight, cq, panicked,
                   nfetch, nret, ncmds, subs, comps, toks, gotAbort, ents>>
    /\ UNCHANGED aux

(* ------------------------------ the ring ------------------------------ *)
\* queue.wait_and_wake_io_tasks: io_uring_enter hands the pushed entries
\* to the kernel and frees the submission queue.
RingEnter ==
    /\ ~panicked
    /\ sq /= EmptyBag
    /\ inflight' = inflight (+) sq
    /\ sq' = EmptyBag
    /\ UNCHANGED <<pc, cmd_op, res, user_data, attempt, iod, hostcmd, cq, panicked,
                   nfetch, nret, ncmds, subs, comps, toks, gotAbort, ents>>
    /\ UNCHANGED aux

\* The kernel completes one operation, in any order, with any result.
RingComplete(e, r) ==
    /\ ~panicked
    /\ BagIn(e, inflight)
    /\ cq' = cq (+) SetToBag({[user_data |-> e.user_data, res |-> r, by |-> e.by]})
    /\ inflight' = inflight (-) SetToBag({e})
    /\ UNCHANGED <<pc, cmd_op, res, user_data, attempt, iod, hostcmd, sq, panicked,
                   nfetch, nret, ncmds, subs, comps, toks, gotAbort, ents>>
    /\ UNCHANGED aux

Next ==
    \/ \E t \in Tags : TaskStart(t)
    \/ \E t \in Tags : CmdWake(t)
    \/ \E c \in BagToSet(cq) : IoWake(c)
    \/ \E t \in Tags, d \in Descs : HostFetch(t, d)
    \/ \E t \in Tags : HostAbort(t)
    \/ RingEnter
    \/ \E e \in BagToSet(inflight), r \in CompletionSet : RingComplete(e, r)

Spec == Init /\ [][Next]_vars

\* The executor polls every woken task and the wait loop of
\* wait_and_wake_io_tasks enters the ring again and again; the kernel
\* completes every operation it was handed. The host framework is not
\* obliged to deliver a further request.
Fairness ==
    /\ \A t \in Tags : WF_vars(TaskStart(t))
    /\ \A t \in Tags : WF_vars(CmdWake(t))
    /\ \A t \in Tags : WF_vars(\E c \in BagToSet(cq) : c.by = t /\ IoWake(c))
    /\ WF_vars(RingEnter)
    /\ \A t \in Tags : WF_vars(\E e \in BagToSet(inflight), r \in CompletionSet :
                                  e.by = t /\ RingComplete(e, r))

\* The queue under persistent backpressure: the host framework delivers
\* READ requests and the ring completes every operation with EAGAIN.
ExhaustionNext ==
    \/ \E t \in Tags : TaskStart(t)
    \/ \E t \in Tags : CmdWake(t)
    \/ \E c \in BagToSet(cq) : IoWake(c)
    \/ \E t \in Tags : HostFetch(t, ReadDesc)
    \/ \E t \in Tags : HostAbort(t)
    \/ RingEnter
    \/ \E e \in BagToSet(inflight) : RingComplete(e, EAGAIN)

ExhaustionSpec == Init /\ [][ExhaustionNext]_vars /\ Fairness

(* ------------------------ observers of a state ------------------------ *)
\* The entries of bag B that task t pushed.
CountBy(B, t) == BagCardinality([e \in {x \in BagToSet(B) : x.by = t} |-> B[e]])
\* Ring operations of t submitted and whose completion t has not received.
Outstanding(t) == CountBy(sq, t) + CountBy(inflight, t) + CountBy(cq, t)
\* The request delivered last on t has been handled: handle_io_cmd returned
\* and the ghosts subs, comps, toks still describe that request.
Finished(t) == pc[t] = "await_cmd" /\ nret[t] = nfetch[t] /\ nret[t] > 0
AllEagain(s) == \A i \in 1 .. Len(s) : s[i] = -11
\* The command of t now with the host framework commits result r.
Commits(t, r) ==
    /\ hostcmd[t].st /= "none"
    /\ hostcmd[t].cmd_op = 33
    /\ hostcmd[t].result = r

(* ------------------------------ claims -------------------------------- *)
\* C1: a request with a supported opcode whose every completion is EAGAIN
\* gets exactly 4 ring submissions and then the final result EAGAIN; no
\* request ever gets a fifth submission.
C1_RetryBound ==
    \A t \in Tags :
        /\ subs[t] <= 4
        /\ (Finished(t) /\ IsSupported(OpOf(iod[t])) /\ AllEagain(comps[t]))
              => (subs[t] = 4 /\ Len(comps[t]) = 4 /\ res[t] = -11)

C1_Witness ==
    \E t \in Tags :
        /\ Finished(t) /\ IsSupported(OpOf(iod[t]))
        /\ comps[t] = <<-11, -11, -11, -11>> /\ subs[t] = 4 /\ res[t] = -11

\* C2: a request whose opcode is not FLUSH, READ or WRITE is answered at
\* once with EINVAL: its task never waits on the ring for it and the
\* number of ring submissions made for it is zero.
C2_OpcodeValidation ==
    \A t \in Tags :
        (nfetch[t] > 0 /\ pc[t] /= "stopped" /\ OpOf(iod[t]) \notin {0, 1, 2})
            => /\ subs[t] = 0
               /\ Outstanding(t) = 0
               /\ pc[t] = "await_cmd"
               /\ (nret[t] = nfetch[t] => res[t] = -22 /\ Commits(t, -22))

C2_Witness ==
    \E t \in Tags :
        /\ Finished(t) /\ OpOf(iod[t]) = 3
        /\ subs[t] = 0 /\ res[t] = -22 /\ Commits(t, -22)

\* C3: at most one ring operation of a tag's task is outstanding, and one
\* is outstanding only while the task awaits its completion; so a retry or
\* the next request's operation is submitted only after the completion of
\* the previous submission has been received.
C3_OneOutstanding ==
    \A t \in Tags :
        /\ Outstanding(t) <= 1
        /\ Outstanding(t) = 1 => pc[t] = "await_io"

C3_Witness ==
    \E t \in Tags :
        /\ Outstanding(t) = 1 /\ pc[t] = "await_io"
        /\ nfetch[t] = 2 /\ subs[t] = 2 /\ comps[t] = <<-11>>

\* C4: once a command of a tag has returned the abort sentinel the tag's
\* task is stopped and stays stopped: no later step issues a command or
\* pushes a ring entry for that tag.
C4_AbortStops ==
    [][\A t \in Tags :
          /\ gotAbort'[t] => (pc'[t] = "stopped" /\ hostcmd'[t].st = "none")
          /\ gotAbort[t] => /\ ncmds'[t] = ncmds[t]
                            /\ nret'[t] = nret[t]
                            /\ subs'[t] = 0
                            /\ CountBy(sq', t) <= CountBy(sq, t)]_vars

C4_Witness ==
    \E t \in Tags :
        /\ gotAbort[t] /\ pc[t] = "stopped" /\ nret[t] = 1
        /\ \E u \in Tags : u /= t /\ pc[u] = "await_io" /\ subs[u] = 2

\* Every ring operation a task submitted is, later, delivered to the task.
EverySubmissionCompletes ==
    \A t \in Tags : (Outstanding(t) > 0) ~> (Outstanding(t) = 0)

ReadHandled(t, k) ==
    /\ nfetch[t] = k /\ nret[t] = k - 1
    /\ pc[t] = "await_io" /\ OpOf(iod[t]) = UBLK_IO_OP_READ

ReadCommitted(t, k) ==
    /\ nfetch[t] = k /\ nret[t] = k
    /\ pc[t] = "await_cmd" /\ hostcmd[t].st = "issued" /\ hostcmd[t].cmd_op = 33
    /\ AllEagain(comps[t]) => (subs[t] = 4 /\ Len(comps[t]) = 4 /\ hostcmd[t].result = -11)

\* C5: with a ring that completes every operation with EAGAIN, under fair
\* scheduling and provided every submission completes (is delivered to the
\* task that awaits it), a READ request being handled leads to its
\* commit-and-fetch command, issued after exactly 4 submissions and carrying
\* EAGAIN: the task is back at fetching the next request of its tag.
C5_ExhaustionCommits ==
    EverySubmissionCompletes =>
        \A t \in Tags : \A k \in 1 .. MaxReqs : ReadHandled(t, k) ~> ReadCommitted(t, k)

C5_Witness ==
    \E t \in Tags :
        /\ ReadCommitted(t, 1) /\ OpOf(iod[t]) = UBLK_IO_OP_READ
        /\ comps[t] = <<-11, -11, -11, -11>> /\ Commits(t, -11)

\* C6: the first completion that is not EAGAIN ends the request: it is the
\* last completion the request receives, no submission follows it, and its
\* value, unchanged, is the final result that is committed.
C6_FirstOtherResultEnds ==
    \A t \in Tags : \A i \in 1 .. Len(comps[t]) :
        comps[t][i] /= -11
            => /\ i = Len(comps[t])
               /\ subs[t] = i
               /\ Outstanding(t) = 0
               /\ nret[t] = nfetch[t]
               /\ res[t] = comps[t][i]
               /\ Commits(t, comps[t][i])

C6_Witness ==
    \E t \in Tags, u \in Tags :
        /\ Finished(t) /\ comps[t] = <<-11, EIO>> /\ res[t] = EIO /\ subs[t] = 2
        /\ Finished(u) /\ comps[u] = <<4096>> /\ res[u] = 4096 /\ subs[u] = 1

\* The final result of the request handled last on t: EINVAL when nothing
\* was submitted for it, else the last completion it received.
FinalOf(t) == IF comps[t] = <<>> THEN -22 ELSE comps[t][Len(comps[t])]

\* C7: the first command of a tag is FETCH_REQ with result 0; every later
\* one is COMMIT_AND_FETCH_REQ with the final result of the request the
\* preceding command delivered; the commands issued are one more than the
\* requests handled, so each fetched request is committed once, by the next
\* command, and nothing is committed that was not fetched.
C7_CommitProtocol ==
    \A t \in Tags :
        /\ nret[t] <= nfetch[t] /\ nfetch[t] <= nret[t] + 1
        /\ pc[t] = "start" => (ncmds[t] = 0 /\ hostcmd[t].st = "none")
        /\ pc[t] \in {"await_cmd", "await_io"} => ncmds[t] = nret[t] + 1
        /\ hostcmd[t].st /= "none" =>
              IF ncmds[t] = 1
                 THEN hostcmd[t].cmd_op = 32 /\ hostcmd[t].result = 0
                 ELSE /\ hostcmd[t].cmd_op = 33
                      /\ nret[t] = nfetch[t] => hostcmd[t].result = FinalOf(t)

C7_Witness ==
    \E t \in Tags :
        /\ ncmds[t] = 3 /\ nret[t] = 2 /\ hostcmd[t].st = "issued"
        /\ hostcmd[t].cmd_op = 33 /\ hostcmd[t].result = EIO /\ FinalOf(t) = EIO

\* C8: a READ or WRITE whose start sector is at or beyond the device's
\* size in sectors is rejected before any ring submission: zero
\* submissions, final result EINVAL.
C8_OutOfRangeRejected ==
    \A t \in Tags :
        (/\ nfetch[t] > 0 /\ pc[t] /= "stopped"
         /\ OpOf(iod[t]) \in {UBLK_IO_OP_READ, UBLK_IO_OP_WRITE}
         /\ iod[t].start_sector >= 20971520)
            => /\ subs[t] = 0
               /\ nret[t] = nfetch[t] => res[t] = -22

\* C9: no per-request condition terminates the device: no queue task has
\* panicked, and a task is stopped only by the abort sentinel.
C9_NoTaskTerminates ==
    /\ ~panicked
    /\ \A t \in Tags : pc[t] = "stopped" => gotAbort[t]

\* C10 as stated: every submission attempt of a request carries a token
\* created for that attempt, so no two attempts of one request carry the
\* same token.
C10_TokenFreshPerAttempt ==
    \A t \in Tags : \A i, j \in 1 .. Len(toks[t]) :
        i /= j => toks[t][i] /= toks[t][j]

\* C10 amended: the token is built once per request from the tag and the
\* opcode with retry-marker 0, and every submission of the request, each
\* retry included, carries that same token; every submission is matched to
\* exactly one completion by the task that issued it: the submissions of a
\* request are its completions received plus the one outstanding.
C10_TokenPerRequest ==
    \A t \in Tags :
        /\ Len(toks[t]) = subs[t]
        /\ \A i \in 1 .. Len(toks[t]) : toks[t][i] = <<t, OpOf(iod[t]), 0>>
        /\ subs[t] = Len(comps[t]) + Outstanding(t)
        /\ \A c \in BagToSet(cq) : c.user_data[1] = c.by

C10_Witness ==
    \E t \in Tags :
        /\ t /= 0 /\ subs[t] = 3 /\ Len(comps[t]) = 3 /\ Finished(t)
        /\ toks[t] = <<toks[t][1], toks[t][1], toks[t][1]>>

(***************************************************************************)
(* The layout prober: Layout::new (src/src/layout.rs) over the ioctl       *)
(* wrappers of src/src/kernel.rs. A call of Layout::new is one step: it    *)
(* reads the target's metadata and, for a block device, issues its ioctls  *)
(* one after the other.                                                    *)
(***************************************************************************)
\* Ioctl sequence numbers of linux/fs.h, as kernel.rs defines them.
BLK_SSZGET_IOCTL_SEQNO == 104
BLK_GETSIZE64_IOCTL_SEQNO == 114
BLK_IOMIN_IOCTL_SEQNO == 120
BLK_IOOPT_IOCTL_SEQNO == 121
BLK_PBSZGET_IOCTL_SEQNO == 123

\* The request each wrapper issues on the file descriptor.
ioctl_blksszget == BLK_SSZGET_IOCTL_SEQNO
ioctl_blkgetsize64 == BLK_GETSIZE64_IOCTL_SEQNO
ioctl_blkiomin == BLK_IOMIN_IOCTL_SEQNO
ioctl_blkioopt == BLK_IOOPT_IOCTL_SEQNO
ioctl_blkpbszget == BLK_SSZGET_IOCTL_SEQNO

\* The calls of the unsafe block in program order: the wrapper, the request
\* it issues and the local variable its result is stored in.
Calls ==
    << [fn |-> "ioctl_blkgetsize64", req |-> ioctl_blkgetsize64, out |-> "size"],
       [fn |-> "ioctl_blkpbszget", req |-> ioctl_blkpbszget, out |-> "physical_block_size"],
       [fn |-> "ioctl_blksszget", req |-> ioctl_blksszget, out |-> "logical_block_size"],
       [fn |-> "ioctl_blkiomin", req |-> ioctl_blkiomin, out |-> "minimum_io_size"],
       [fn |-> "ioctl_blkioopt", req |-> ioctl_blkioopt, out |-> "optimal_io_size"] >>

\* What the kernel answers to a request on a block device.
Answer(dev, req) ==
    CASE req = BLK_GETSIZE64_IOCTL_SEQNO -> dev.size
      [] req = BLK_PBSZGET_IOCTL_SEQNO -> dev.pbsz
      [] req = BLK_SSZGET_IOCTL_SEQNO -> dev.ssz
      [] req = BLK_IOMIN_IOCTL_SEQNO -> dev.iomin
      [] req = BLK_IOOPT_IOCTL_SEQNO -> dev.ioopt

\* let mut size = 0; let mut physical_block_size = 0; ...
ZeroLocals ==
    [size |-> 0, physical_block_size |-> 0, logical_block_size |-> 0,
     minimum_io_size |-> 0, optimal_io_size |-> 0]

\* The ? after a call: an error return (an errno, not 0) leaves Layout::new.
IgnoresError(e) == FALSE
Propagates(e) == e /= 0

\* The calls from the i-th on, with the locals so far; outcome[i] is what
\* the i-th call returns if it is issued: 0, or the errno it fails with.
RECURSIVE Query(_, _, _, _)
Query(i, dev, outcome, locals) ==
    IF i > Len(Calls)
       THEN [calls |-> <<>>, issued |-> <<>>, rets |-> <<>>, err |-> 0, locals |-> locals]
       ELSE LET c == Calls[i]
                after == IF outcome[i] = 0
                            THEN [locals EXCEPT ![c.out] = Answer(dev, c.req)]
                            ELSE locals
                rest == IF Propagates(outcome[i])
                           THEN [calls |-> <<>>, issued |-> <<>>, rets |-> <<>>,
                                 err |-> outcome[i], locals |-> after]
                           ELSE Query(i + 1, dev, outcome, after)
            IN  [calls |-> <<c.fn>> \o rest.calls,
                 issued |-> <<c.req>> \o rest.issued,
                 rets |-> <<outcome[i]>> \o rest.rets,
                 err |-> rest.err,
                 locals |-> rest.locals]

Ok(l) == [ok |-> TRUE, layout |-> l]
Err(e, errno) == [ok |-> FALSE, err |-> e, errno |-> errno]

\* The regular-file branch: the Layout read from the file's metadata.
FileLayoutMinFromBlksize(meta) ==
    [size |-> meta.size, logical_block_size |-> meta.blksize,
     physical_block_size |-> meta.blksize, minimum_io_size |-> meta.blksize,
     optimal_io_size |-> 0]
FileLayout(meta) ==
    [size |-> meta.size, logical_block_size |-> meta.blksize,
     physical_block_size |-> meta.blksize, minimum_io_size |-> 512,
     optimal_io_size |-> 0]

\* Layout::new(target): the wrappers called, the requests issued, what each
\* returned, and the function's result.
Layout_new(target, outcome) ==
    LET none == [calls |-> <<>>, issued |-> <<>>, rets |-> <<>>]
    IN  IF ~target.meta_ok
           THEN none @@ [result |-> Err("IOError", 0)]
        ELSE IF target.kind = "block"
           THEN LET q == Query(1, target, outcome, ZeroLocals)
                IN  [calls |-> q.calls, issued |-> q.issued, rets |-> q.rets,
                     result |-> IF q.err /= 0 THEN Err("QueryError", q.err)
                                ELSE Ok(q.locals)]
        ELSE IF target.kind = "file"
           THEN none @@ [result |-> Ok(FileLayout(target))]
        ELSE none @@ [result |-> Err("UnsupportedDeviceType", 0)]

\* The targets probed: block devices of every combination of two values per
\* geometry figure, regular files, a directory, and a target whose metadata
\* cannot be read.
Target(kind, meta_ok, size, blksize, pbsz, ssz, iomin, ioopt) ==
    [kind |-> kind, meta_ok |-> meta_ok, size |-> size, blksize |-> blksize,
     pbsz |-> pbsz, ssz |-> ssz, iomin |-> iomin, ioopt |-> ioopt]
Targets ==
    {Target("block", TRUE, sz, 4096, p, l, mn, op) :
        sz \in {1048576, 1073741824}, p \in {512, 4096}, l \in {512, 4096},
        mn \in {512, 8192}, op \in {0, 65536}}
    \cup {Target("file", TRUE, sz, b, 0, 0, 0, 0) : sz \in {0, 1000, 1048576}, b \in {1024, 4096}}
    \cup {Target("dir", TRUE, 4096, 4096, 0, 0, 0, 0),
          Target("block", FALSE, 0, 0, 0, 0, 0, 0)}

\* The errors an ioctl fails with: ENOTTY and EINVAL.
Errnos == {25, 22}
Outcomes == [1 .. Len(Calls) -> {0} \cup Errnos]

LayoutInit ==
    /\ QueueInit
    /\ probe \in {[st |-> "start", target |-> tg] : tg \in Targets}
    /\ master = NoMaster
    /\ calc = NoCalc

LayoutNew(outcome) ==
    /\ probe.st = "start"
    /\ probe' = [st |-> "done", target |-> probe.target] @@ Layout_new(probe.target, outcome)
    /\ UNCHANGED <<qvars, master, calc>>

LayoutNext == \E outcome \in Outcomes : LayoutNew(outcome)

LayoutSpec == LayoutInit /\ [][LayoutNext]_vars

\* A finished probe of a block device whose metadata was read.
BlockProbed == probe.st = "done" /\ probe.target.meta_ok /\ probe.target.kind = "block"

\* C11: for a block device, a successful probe returns as physical_block_size
\* the device's physical block size and as logical_block_size its logical
\* sector size, and the two are obtained by two different requests.
C11_PhysicalAndLogical ==
    (BlockProbed /\ probe.result.ok) =>
        /\ probe.result.layout.physical_block_size = probe.target.pbsz
        /\ probe.result.layout.logical_block_size = probe.target.ssz
        /\ probe.issued[2] /= probe.issued[3]

\* C12: a regular file of length L and I/O block size B succeeds with
\* exactly {size L, logical B, physical B, minimum 512, optimal 0}, and no
\* ioctl is issued.
C12_RegularFile ==
    (probe.st = "done" /\ probe.target.meta_ok /\ probe.target.kind = "file") =>
        /\ probe.result = Ok([size |-> probe.target.size,
                              logical_block_size |-> probe.target.blksize,
                              physical_block_size |-> probe.target.blksize,
                              minimum_io_size |-> 512,
                              optimal_io_size |-> 0])
        /\ probe.issued = <<>>
        /\ probe.calls = <<>>

C12_Witness ==
    /\ probe.st = "done" /\ probe.target.kind = "file"
    /\ probe.target.size = 1000 /\ probe.target.blksize = 1024
    /\ probe.result.ok /\ probe.result.layout.physical_block_size = 1024

\* The order of the five queries.
QueryOrder ==
    <<"ioctl_blkgetsize64", "ioctl_blkpbszget", "ioctl_blksszget",
      "ioctl_blkiomin", "ioctl_blkioopt">>

MasterClusters == 6
\* The largest number of clusters a create_vblock asks for.
MaxRequest == 3
\* The ids a master block assigns before no further vblock is created.
MaxIds == 3
\* The reserved metadata cluster.
ReservedClusters == 1

RECURSIVE SumAllocated(_)
\* The clusters committed to the vblocks of a directory.
SumAllocated(dir) ==
    IF dir = {} THEN 0
    ELSE LET vb == CHOOSE x \in dir : TRUE
         IN  vb.allocated + SumAllocated(dir \ {vb})

\* The master block as the operations see it.
Snapshot(m) == [allocated |-> m.allocated, vblocks |-> m.vblocks, next_id |-> m.next_id]

\* A master block of MasterClusters clusters, the reserved one allocated.
NewMaster ==
    LET m == [st |-> "live", size |-> MasterClusters, allocated |-> ReservedClusters,
              vblocks |-> {}, next_id |-> 0]
    IN  m @@ [last |-> [op |-> "new", arg |-> 0, ret |-> "ok", before |-> Snapshot(m)]]

LiveIds(dir) == {vb.id : vb \in dir}
Lookup(dir, id) == CHOOSE vb \in dir : vb.id = id

RECURSIVE SortById(_)
\* list(): the directory as a sequence ordered by id.
SortById(dir) ==
    IF dir = {} THEN <<>>
    ELSE LET vb == CHOOSE x \in dir : \A y \in dir : x.id <= y.id
         IN  <<vb>> \o SortById(dir \ {vb})
list == SortById(master.vblocks)

\* The request fits the free capacity.
FitsAlways(requested) == TRUE
Fits(requested) == master.allocated + requested <= master.size

\* The clusters a deletion gives back to the free pool.
ReleasedNone(vb) == 0
Released(vb) == vb.allocated

AllocInit ==
    /\ QueueInit
    /\ probe = NoProbe
    /\ master = NewMaster
    /\ calc = NoCalc

create_vblock(requested) ==
    /\ master.st = "live"
    /\ master.next_id < MaxIds
    /\ IF Fits(requested)
          THEN master' = [master EXCEPT
                   !.vblocks = @ \cup {[id |-> master.next_id, size |-> requested,
                                        allocated |-> requested]},
                   !.allocated = @ + requested,
                   !.next_id = @ + 1,
                   !.last = [op |-> "create", arg |-> requested, ret |-> "ok",
                             before |-> Snapshot(master)]]
          ELSE master' = [master EXCEPT
                   !.last = [op |-> "create", arg |-> requested,
                             ret |-> "insufficient space", before |-> Snapshot(master)]]
    /\ UNCHANGED <<qvars, probe, calc>>

delete_vblock(id) ==
    /\ master.st = "live"
    /\ IF id \in LiveIds(master.vblocks)
          THEN LET vb == Lookup(master.vblocks, id)
               IN  master' = [master EXCEPT
                       !.vblocks = @ \ {vb},
                       !.allocated = @ - Released(vb),
                       !.last = [op |-> "delete", arg |-> id, ret |-> "ok",
                                 before |-> Snapshot(master)]]
          ELSE master' = [master EXCEPT
                   !.last = [op |-> "delete", arg |-> id, ret |-> "NotFound",
                             before |-> Snapshot(master)]]
    /\ UNCHANGED <<qvars, probe, calc>>

AllocNext ==
    \/ \E requested \in 1 .. MaxRequest : create_vblock(requested)
    \/ \E id \in 0 .. (MaxIds - 1) : delete_vblock(id)

AllocSpec == AllocInit /\ [][AllocNext]_vars

Live == master.st = "live"
LastOp(op, ret) == Live /\ master.last.op = op /\ master.last.ret = ret

\* C14: after every sequence of create_vblock and delete_vblock, allocated <=
\* size and allocated = reserved + the sum of allocated over the directory;
\* a create_vblock that does not fit is rejected with insufficient space, is
\* exactly a create that would exceed size, and leaves the master block as
\* it was.
C14_CapacityInvariant ==
    Live =>
        /\ master.allocated <= master.size
        /\ master.allocated = ReservedClusters + SumAllocated(master.vblocks)
        /\ \A vb \in master.vblocks : vb.allocated \in 0 .. vb.size
        /\ master.last.op = "create" =>
               /\ (master.last.ret = "insufficient space")
                      = (master.last.before.allocated + master.last.arg > master.size)
               /\ master.last.ret = "insufficient space"
                      => Snapshot(master) = master.last.before

C14_Witness ==
    /\ LastOp("create", "insufficient space")
    /\ Cardinality(master.vblocks) = 2
    /\ master.allocated = master.size - 1
    /\ master.last.arg = 2

\* C15: a delete_vblock of a live vblock lowers the global allocated count
\* by that vblock's allocated clusters and takes the vblock, and only it,
\* off list(); a delete_vblock of an id deleted before returns NotFound and
\* leaves the master block as it was.
C15_DeleteReleasesOnce ==
    (Live /\ master.last.op = "delete") =>
        LET b == master.last.before
            id == master.last.arg
        IN  IF id \in LiveIds(b.vblocks)
               THEN /\ master.last.ret = "ok"
                    /\ master.allocated = b.allocated - Lookup(b.vblocks, id).allocated
                    /\ \A i \in 1 .. Len(list) : list[i].id /= id
                    /\ master.vblocks = b.vblocks \ {Lookup(b.vblocks, id)}
               ELSE /\ master.last.ret = "NotFound"
                    /\ Snapshot(master) = b

\* A second delete of an id: the id was assigned and is no longer live.
C15_Witness ==
    /\ LastOp("delete", "NotFound")
    /\ master.last.arg < master.next_id
    /\ master.last.arg \notin LiveIds(master.vblocks)
    /\ master.vblocks /= {}

(***************************************************************************)
(* The dispatch engine: retries and isolation of the tags.                 *)
(***************************************************************************)
\* The operation of a ring entry: opcode, registered-file index, offset,
\* length and buffer address.
Operation(e) == <<e.opcode, e.fd, e.off, e.len, e.buf>>

\* C16: every submission made for a request after an EAGAIN completion is
\* the operation of the request's first submission: same ring opcode,
\* registered-file index, offset, length and buffer address.
C16_RetrySameOperation ==
    \A t \in Tags :
        /\ Len(ents[t]) = subs[t]
        /\ \A i \in 2 .. Len(ents[t]) :
               /\ comps[t][i - 1] = EAGAIN
               /\ Operation(ents[t][i]) = Operation(ents[t][1])

C16_Witness ==
    \E t \in Tags :
        /\ Len(ents[t]) = 4
        /\ comps[t] = <<EAGAIN, EAGAIN, EAGAIN>>
        /\ ents[t][4].opcode = "Read"
        /\ ents[t][4].len = 8

(***************************************************************************)
(* The offset arithmetic of submit_io_cmd in bytes, at its machine widths. *)
(* A u64 is four 16-bit limbs and a u32 two, least significant first.      *)
(***************************************************************************)
Limb == 65536
\* .io_buf_bytes(1u32 << 19)
MaxIoBufBytes == 524288
\* max_sectors: dev.dev_info.max_io_buf_bytes >> 9
MaxSectors == MaxIoBufBytes \div 512

\* A number below 2^31 as a u64 and as a u32.
U64(n) == <<n % Limb, n \div Limb, 0, 0>>
U32(n) == <<n % Limb, n \div Limb>>

\* x << 9 on a u64: the bits shifted out of the top are dropped.
Shl9U64(x) ==
    LET v1 == x[1] * 512
        v2 == x[2] * 512 + (v1 \div Limb)
        v3 == x[3] * 512 + (v2 \div Limb)
        v4 == x[4] * 512 + (v3 \div Limb)
    IN  <<v1 % Limb, v2 % Limb, v3 % Limb, v4 % Limb>>

\* x << 9 on a u32, and the cast to u32 after it.
Shl9U16(x) ==
    LET v1 == x[1] * 512
    IN  <<v1 % Limb, 0>>
Shl9U32(x) ==
    LET v1 == x[1] * 512
        v2 == x[2] * 512 + (v1 \div Limb)
    IN  <<v1 % Limb, v2 % Limb>>

\* x + y on u64: the sum modulo 2^64 and whether it overflowed (a panic in
\* a build with overflow checks, the wrapped sum in one without).
AddU64(x, y) ==
    LET v1 == x[1] + y[1]
        v2 == x[2] + y[2] + (v1 \div Limb)
        v3 == x[3] + y[3] + (v2 \div Limb)
        v4 == x[4] + y[4] + (v3 \div Limb)
    IN  [sum |-> <<v1 % Limb, v2 % Limb, v3 % Limb, v4 % Limb>>,
         overflow |-> v4 >= Limb]

\* 1 << 30
ExtentBase == <<0, 16384, 0, 0>>

\* let off = (io_descriptor.start_sector << 9) as u64 + (1 << 30);
off(start_sector) == AddU64(Shl9U64(start_sector), ExtentBase)
\* let bytes = (io_descriptor.nr_sectors << 9) as u32;
bytes(nr_sectors) == Shl9U32(U32(nr_sectors))

\* The start sectors and sector counts evaluated: the ends of the device
\* and of the largest request, their neighbours on both sides, a count
\* whose byte length is 2^32 and a start sector whose byte offset is 2^64.
StartSectors ==
    {U64(n) : n \in {0, 1, 7, 8, 1024, 65535, 65536, DevSectors - MaxSectors,
                     DevSectors - 8, DevSectors - 1, DevSectors, DevSectors + 8}}
    \cup {<<0, 0, 0, 128>>}
SectorCounts == {0, 1, 8, MaxSectors - 1, MaxSectors, MaxSectors + 1, 8388608}

CalcInit ==
    /\ QueueInit
    /\ probe = NoProbe
    /\ master = NoMaster
    /\ calc \in {[st |-> "request", start_sector |-> s, nr_sectors |-> n] :
                    s \in StartSectors, n \in SectorCounts}

\* The three lets of submit_io_cmd for the request.
ComputeOffsets ==
    /\ calc.st = "request"
    /\ calc' = [st |-> "done", start_sector |-> calc.start_sector,
                nr_sectors |-> calc.nr_sectors,
                off |-> off(calc.start_sector).sum,
                overflow |-> off(calc.start_sector).overflow,
                bytes |-> bytes(calc.nr_sectors)]
    /\ UNCHANGED <<qvars, probe, master>>

CalcNext == ComputeOffsets

CalcSpec == CalcInit /\ [][CalcNext]_vars

\* A start sector below 2^31 as a number.
SectorNo(s) == s[1] + s[2] * Limb
\* The request lies inside the geometry the device advertises.
InGeometry(s, n) ==
    /\ s[3] = 0 /\ s[4] = 0 /\ s[2] < 16384
    /\ SectorNo(s) + n <= DevSectors
    /\ n <= MaxSectors
\* A byte count that is a multiple of 512 and below 2^39, in sectors.
IsSectors(x) == x[1] % 512 = 0 /\ (Len(x) = 4 => x[3] < 128 /\ x[4] = 0)
Sectors(x) == (x[1] \div 512) + x[2] * 128 + (IF Len(x) = 4 THEN x[3] * 8388608 ELSE 0)

\* C17: for a request inside the advertised geometry the byte offset is
\* 2^30 + 512 * start_sector and the byte length 512 * nr_sectors, neither
\* computation loses a bit or overflows; the offset is at least 1 GiB,
\* offset + length is at most 11 GiB, another start sector inside the
\* geometry has another offset, and the ring entry carries these values.
C17_OffsetExact ==
    (calc.st = "done" /\ InGeometry(calc.start_sector, calc.nr_sectors)) =>
        LET d == Desc(UBLK_IO_OP_READ, SectorNo(calc.start_sector), calc.nr_sectors)
        IN  /\ ~calc.overflow
            /\ IsSectors(calc.off) /\ IsSectors(calc.bytes)
            /\ Sectors(calc.off) = BaseSectors + SectorNo(calc.start_sector)
            /\ Sectors(calc.bytes) = calc.nr_sectors
            /\ Sectors(calc.off) >= BaseSectors
            /\ Sectors(calc.off) + Sectors(calc.bytes) <= 11 * BaseSectors
            /\ \A s \in StartSectors :
                   (InGeometry(s, calc.nr_sectors) /\ s /= calc.start_sector)
                       => off(s).sum /= calc.off
            /\ SqeOf("Read", 0, d, NoToken).off = Sectors(calc.off)
            /\ SqeOf("Read", 0, d, NoToken).len = Sectors(calc.bytes)

\* The largest request at the end of the device: offset 11 GiB - 512 KiB.
C17_Witness ==
    /\ calc.st = "done"
    /\ calc.start_sector = U64(DevSectors - MaxSectors)
    /\ calc.nr_sectors = MaxSectors
    /\ calc.off = <<0, 49144, 2, 0>>
    /\ calc.bytes = <<0, 8>>

\* The tokens of the operations a tag has on the ring, pushed, executing or
\* completed and not yet reaped.
OnRing(t) ==
    {e.user_data : e \in {x \in DOMAIN sq \cup DOMAIN inflight \cup DOMAIN cq : x.by = t}}

\* A step changes what a tag's task holds: its position, its command and
\* result, its request, its token and retry count, or its operations on
\* the ring.
Changes(t) ==
    \/ pc'[t] /= pc[t]
    \/ attempt'[t] /= attempt[t]
    \/ hostcmd'[t] /= hostcmd[t]
    \/ res'[t] /= res[t]
    \/ cmd_op'[t] /= cmd_op[t]
    \/ user_data'[t] /= user_data[t]
    \/ iod'[t] /= iod[t]
    \/ comps'[t] /= comps[t]
    \/ ents'[t] /= ents[t]
    \/ /\ (sq' /= sq \/ inflight' /= inflight \/ cq' /= cq)
       /\ OnRing(t)' /= OnRing(t)

\* C18: in every step at most one tag's state changes, and a step that takes
\* a completion off the completion queue changes the state of no tag but
\* the one the completion's token names, which is the tag that submitted
\* the operation: completions, retries, error results and aborts of one tag
\* leave the outstanding operation, the retry count and the committed
\* result of every other tag as they were.
C18_TagIsolation ==
    [][LET changed == {t \in Tags : Changes(t)}
       IN  /\ Cardinality(changed) <= 1
           /\ \A c \in DOMAIN cq :
                  CopiesIn(c, cq') < CopiesIn(c, cq) =>
                      /\ user_data_to_tag(c.user_data) = c.by
                      /\ comps'[c.by] = Append(comps[c.by], c.res)
                      /\ changed \subseteq {c.by}]_vars

\* Two tags with an operation outstanding each, one of them a retry.
C18_Witness ==
    \E t, u \in Tags :
        /\ t /= u
        /\ pc[t] = "await_io" /\ attempt[t] = 2 /\ comps[t] = <<EAGAIN>>
        /\ pc[u] = "await_io" /\ attempt[u] = 1
        /\ Outstanding(t) = 1 /\ Outstanding(u) = 1


====
